---- MODULE Spec2Model ----
(***************************************************************************)
(* The ETL job of aced_etl_pod: src/etl-job/fhir_import.py (import only)   *)
(* and src/etl-job/fhir_import_export.py (import and export).  One run of  *)
(* a script is a single pass: authenticate, fetch the user document, read  *)
(* INPUT_DATA, check permissions, call the external tools, print the       *)
(* output record.                                                          *)
(*                                                                         *)
(* Python values are represented as follows.  A dict is a function whose   *)
(* DOMAIN is its set of keys (a missing key is a missing element of the    *)
(* DOMAIN).  project_id and method are sequences of one-character strings, *)
(* so that split('-') and lower() are computed character by character;     *)
(* Str turns such a sequence into the string used in paths and log lines.  *)
(* None is the string "None", which no input domain contains.              *)
(***************************************************************************)
EXTENDS Integers, Sequences, FiniteSets, TLC

VARIABLES
    script,     \* which script runs: "fhir_import" or "fhir_import_export"
    pc,         \* position of the run in _main
    world,      \* what the external collaborators have answered so far
    locals,     \* local variables of _main / _put / _get, by name, once assigned
    output,     \* the output record: user, files, logs (and object_id)
    stdout,     \* the '[out] <json>' lines printed so far
    trace,      \* the steps executed so far, in order
    error,      \* the exception that ended the run, or "None"
    prev        \* the finished run of the other script (SpecPair only)

vars == <<script, pc, world, locals, output, stdout, trace, error, prev>>

----------------------------------------------------------------------------
(* Bounds and input domains *)

MaxLen == 3

None == "None"

Undefined == [undefined |-> TRUE]

Alphabet == {"p", "-"}

RECURSIVE SeqsUpTo(_, _)
SeqsUpTo(S, n) ==
    IF n = 0 THEN {<<>>}
    ELSE LET shorter == SeqsUpTo(S, n - 1)
         IN  shorter \cup {Append(s, c) : s \in {t \in shorter : Len(t) = n - 1}, c \in S}

ProjectIds == SeqsUpTo(Alphabet, MaxLen)

Methods ==
    { <<>>,
      <<"p", "u", "t">>, <<"P", "U", "T">>,
      <<"g", "e", "t">>, <<"G", "e", "t">>,
      <<"p", "o", "s", "t">> }

ObjectIds == {"", "o"}

RECURSIVE Str(_)
Str(s) == IF s = <<>> THEN "" ELSE Head(s) \o Str(Tail(s))

\* INPUT_DATA, decoded: a dict with any of the keys project_id, method, object_id
InputDicts ==
    UNION { { [k \in keys |->
                 IF k = "project_id" THEN pid
                 ELSE IF k = "method" THEN m ELSE o] :
              pid \in ProjectIds, m \in Methods, o \in ObjectIds } :
            keys \in SUBSET {"project_id", "method", "object_id"} }

\* os.environ: INPUT_DATA is set (to the JSON text of a dict) or is not
Environs == {[set |-> FALSE]} \cup {[set |-> TRUE, json |-> d] : d \in InputDicts}

\* the user documents the authorization service may return for /user/user
Sheepdog == [method |-> "*", service |-> "sheepdog"]

ReadStorage == [method |-> "read-storage", service |-> "*"]

ResourcePaths ==
    { "/programs/p",
      "/services/sheepdog/submission/program",
      "/services/sheepdog/submission/project",
      "/programs/p/projects",
      "/programs/p/projects/p" }

AuthzPaths == {"/programs/p/projects", "/programs/p/projects/p"}

UserDocs ==
    { [resources |-> r, authz |-> a] :
        r \in SUBSET ResourcePaths,
        a \in UNION { [k -> {{Sheepdog}, {ReadStorage}}] : k \in SUBSET AuthzPaths } }

\* subprocess.run(cmd): no pipes, so stderr and stdout of the result are None
ReturnCodes == {0, 1}

Uncaptured == {[returncode |-> rc, stderr |-> None, stdout |-> None] : rc \in ReturnCodes}

\* subprocess.run(cmd, capture_output=True, text=True)
Captured ==
    { [returncode |-> 0, stderr |-> "", stdout |-> "loaded"],
      [returncode |-> 1, stderr |-> "Traceback", stdout |-> ""] }

\* pathlib.Path(file_path).glob('*'): the names found in the study directory
Globs == {[names |-> <<>>], [names |-> <<"Patient.ndjson">>]}

\* aced_submission.fhir_store.fhir_get and gen3_util.meta.uploader.cp
FhirGetResults == {[logs |-> <<>>], [logs |-> <<"exported Patient">>]}

CpResults == {[msg |-> "Uploaded", object_id |-> "guid-1"]}

Questions == {"user", "INPUT_DATA", "download", "unzip", "glob", "load_all", "fhir_get", "cp"}

----------------------------------------------------------------------------
(* Python helpers *)

\* d[k] = v
Set(d, k, v) == [x \in DOMAIN d \cup {k} |-> IF x = k THEN v ELSE d[x]]

\* bool(v) of a str or None
Truthy(v) == v # None /\ v # ""

\* str.split('-')
RECURSIVE SplitFrom(_, _, _)
SplitFrom(rest, cur, parts) ==
    IF rest = <<>> THEN Append(parts, cur)
    ELSE IF Head(rest) = "-" THEN SplitFrom(Tail(rest), <<>>, Append(parts, cur))
    ELSE SplitFrom(Tail(rest), Append(cur, Head(rest)), parts)

Split(s) == SplitFrom(s, <<>>, <<>>)

\* str.lower()
LowerChar(c) ==
    CASE c = "P" -> "p" [] c = "U" -> "u" [] c = "T" -> "t" [] c = "G" -> "g"
      [] c = "E" -> "e" [] c = "O" -> "o" [] c = "S" -> "s" [] OTHER -> c

Lower(s) == [i \in 1..Len(s) |-> LowerChar(s[i])]

\* f"{b}" of a bool
BoolStr(b) == IF b THEN "True" ELSE "False"

IsPrefix(s, t) == Len(s) <= Len(t) /\ SubSeq(t, 1, Len(s)) = s

InSeq(x, s) == \E i \in 1..Len(s) : s[i] = x

----------------------------------------------------------------------------
(* The functions of the scripts.  _can_create, _download_and_unzip and     *)
(* _load_all have the same text in both files (fhir_import.py lines 52-141 *)
(* and fhir_import_export.py lines 57-98, 143-188).  Each takes the log of *)
(* the output record and yields the log it leaves and the value returned.  *)

\* the loop over required_resources: one log line per resource, found or not
RECURSIVE RequiredResources(_, _, _)
RequiredResources(st, required, user) ==
    IF required = <<>> THEN st
    ELSE LET r == Head(required)
             st1 == IF r \notin user.resources
                    THEN [logs |-> Append(st.logs, r \o " not found in user resources"),
                          ret  |-> FALSE]
                    ELSE [logs |-> Append(st.logs, "HAS RESOURCE " \o r),
                          ret  |-> st.ret]
         IN  RequiredResources(st1, Tail(required), user)

\* the loop over required_services, for the entry `wanted` named `label`
RECURSIVE RequiredServices(_, _, _, _, _)
RequiredServices(st, required, user, wanted, label) ==
    IF required = <<>> THEN st
    ELSE LET r == Head(required)
             st1 == IF r \notin DOMAIN user.authz
                    THEN [logs |-> Append(st.logs, r \o " not found in user authz"),
                          ret  |-> FALSE]
                    ELSE IF wanted \notin user.authz[r]
                    THEN [logs |-> Append(st.logs,
                                     label \o " not found in user authz for " \o r),
                          ret  |-> FALSE]
                    ELSE [logs |-> Append(st.logs,
                                     "HAS SERVICE " \o label \o " on resource " \o r),
                          ret  |-> st.ret]
         IN  RequiredServices(st1, Tail(required), user, wanted, label)

\* the first check of _can_create and _can_read: logs only when it fails
ProgramResource(st, program, user) ==
    IF ("/programs/" \o program) \notin user.resources
    THEN [logs |-> Append(st.logs, "/programs/" \o program \o " not found in user resources"),
          ret  |-> FALSE]
    ELSE st
\* mutant of _can_create: the authz entry of the projects resource is not checked
_can_create_no_authz(logs, program, user) ==
    LET st0 == [logs |-> logs, ret |-> TRUE]
        st1 == ProgramResource(st0, program, user)
    IN  RequiredResources(st1,
            << "/services/sheepdog/submission/program",
               "/services/sheepdog/submission/project",
               "/programs/" \o program \o "/projects" >>, user)

_can_create(logs, program, user) ==
    LET st0 == [logs |-> logs, ret |-> TRUE]
        st1 == ProgramResource(st0, program, user)
        st2 == RequiredResources(st1,
                   << "/services/sheepdog/submission/program",
                      "/services/sheepdog/submission/project",
                      "/programs/" \o program \o "/projects" >>, user)
    IN  RequiredServices(st2, << "/programs/" \o program \o "/projects" >>,
                         user, Sheepdog, "sheepdog")
\* mutant of _can_read: the read-storage entry is not checked
_can_read_no_authz(logs, program, project, user) ==
    LET st0 == [logs |-> logs, ret |-> TRUE]
        st1 == ProgramResource(st0, program, user)
    IN  RequiredResources(st1,
            << "/programs/" \o program \o "/projects/" \o project >>, user)

_can_read(logs, program, project, user) ==
    LET st0 == [logs |-> logs, ret |-> TRUE]
        st1 == ProgramResource(st0, program, user)
        st2 == RequiredResources(st1,
                   << "/programs/" \o program \o "/projects/" \o project >>, user)
    IN  RequiredServices(st2, << "/programs/" \o program \o "/projects/" \o project >>,
                         user, ReadStorage, "read-storage")

\* the stderr and stdout of a failed, uncaptured subprocess, when there are any
Streams(logs, result) ==
    LET l1 == IF Truthy(result.stderr) THEN Append(logs, result.stderr) ELSE logs
    IN  IF Truthy(result.stdout) THEN Append(l1, result.stdout) ELSE l1
\* mutant of _download: the exit code of the download is logged but not returned
_download_ignores_exit(logs, object_id, file_path, result) ==
    IF result.returncode # 0
    THEN [logs |-> Streams(Append(logs, "ERROR DOWNLOADING " \o object_id
                                          \o " /tmp/" \o object_id), result),
          ret  |-> TRUE]
    ELSE [logs |-> Append(logs, "DOWNLOADED " \o object_id \o " " \o file_path),
          ret  |-> TRUE]

\* _download_and_unzip, first half: gen3_util files cp
_download(logs, object_id, file_path, result) ==
    IF result.returncode # 0
    THEN [logs |-> Streams(Append(logs, "ERROR DOWNLOADING " \o object_id
                                          \o " /tmp/" \o object_id), result),
          ret  |-> FALSE]
    ELSE [logs |-> Append(logs, "DOWNLOADED " \o object_id \o " " \o file_path),
          ret  |-> TRUE]
\* mutant of _unzip: a failed unzip is logged but reported as a success
_unzip_continues(logs, object_id, file_path, result) ==
    IF result.returncode # 0
    THEN [logs |-> Streams(Append(logs, "ERROR UNZIPPING /tmp/" \o object_id), result),
          ret  |-> TRUE]
    ELSE [logs |-> Append(logs, "UNZIPPED " \o file_path),
          ret  |-> TRUE]

\* _download_and_unzip, second half: unzip
_unzip(logs, object_id, file_path, result) ==
    IF result.returncode # 0
    THEN [logs |-> Streams(Append(logs, "ERROR UNZIPPING /tmp/" \o object_id), result),
          ret  |-> FALSE]
    ELSE [logs |-> Append(logs, "UNZIPPED " \o file_path),
          ret  |-> TRUE]
\* mutant of _load_all: the log is assigned anew instead of appended to
_load_all_resets_log(logs, study, project_id, result) ==
    LET l0 == <<"LOADING: ['./load_all']">>
    IN  IF result.returncode # 0
        THEN [logs |-> l0 \o <<"ERROR LOADING " \o study, result.stderr, result.stdout>>,
              ret  |-> FALSE]
        ELSE [logs |-> l0 \o <<"LOADED " \o study, result.stderr, result.stdout>>,
              ret  |-> TRUE]

_load_all(logs, study, project_id, result) ==
    LET l0 == Append(logs, "LOADING: ['./load_all']")
    IN  IF result.returncode # 0
        THEN [logs |-> l0 \o <<"ERROR LOADING " \o study, result.stderr, result.stdout>>,
              ret  |-> FALSE]
        ELSE [logs |-> l0 \o <<"LOADED " \o study, result.stderr, result.stdout>>,
              ret  |-> TRUE]

\* the globbed paths, as str(path)
FilesFound(file_path, names) == [i \in 1..Len(names) |-> file_path \o names[i]]
\* mutant of IsPut: the comparison without lower()
IsPut_case_sensitive(method) == method = <<"p", "u", "t">>

\* method.lower() == 'put' / 'get'
IsPut(method) == Lower(method) = <<"p", "u", "t">>

IsGet(method) == Lower(method) = <<"g", "e", "t">>

----------------------------------------------------------------------------
(* The run *)

Scripts == {"fhir_import", "fhir_import_export"}

Init ==
    /\ script \in Scripts
    /\ pc = "auth"
    /\ world = [q \in Questions |-> Undefined]
    /\ locals = ("__name__" :> "__main__")
    /\ output = Undefined
    /\ stdout = <<>>
    /\ trace = <<>>
    /\ error = None
    /\ prev = Undefined

\* An external collaborator answers `a` to `q`.  The answer is remembered: asked
\* again (by the second script of SpecPair) it answers the same.
Answer(q, a) ==
    /\ world[q] \in {Undefined, a}
    /\ world' = [world EXCEPT ![q] = a]

Step(name) == trace' = Append(trace, name)

\* an uncaught exception ends the process: nothing more runs, nothing is printed
Raise(e) ==
    /\ pc' = "aborted"
    /\ error' = e

Log(logs) == output' = [output EXCEPT !.logs = logs]

\* token = _get_token(); auth = _auth(token)
Auth ==
    /\ pc = "auth"
    /\ Step("auth")
    /\ pc' = "user"
    /\ UNCHANGED <<script, world, locals, output, stdout, error, prev>>

\* user = _user(auth); output = {'user': user, 'files': [], 'logs': []}
User ==
    /\ pc = "user"
    /\ \E u \in UserDocs :
          /\ Answer("user", u)
          /\ locals' = Set(locals, "user", u)
          /\ output' = [user |-> u, files |-> <<>>, logs |-> <<>>]
    /\ Step("user")
    /\ pc' = "input_data"
    /\ UNCHANGED <<script, stdout, error, prev>>

\* input_data = _input_data(); program, project = _get_program_project(input_data)
\* what the two lines leave: the exception raised, or the locals they assign
ParseInput(environ) ==
    IF ~environ.set
    THEN [error |-> "AssertionError: INPUT_DATA not found in environment"]
    ELSE LET input_data == environ.json IN
         IF "project_id" \notin DOMAIN input_data
         THEN [error |-> "AssertionError: project_id not found in INPUT_DATA"]
         ELSE IF ~InSeq("-", input_data.project_id)
         THEN [error |-> "AssertionError: project_id must be in the format <program>-<project>"]
         ELSE LET parts == Split(input_data.project_id) IN
              IF Len(parts) # 2
              THEN [error |-> "ValueError: too many values to unpack (expected 2)"]
              ELSE [error |-> None, input_data |-> input_data,
                    program |-> Str(parts[1]), project |-> Str(parts[2])]

InputData ==
    /\ pc = "input_data"
    /\ \E e \in Environs :
          /\ Answer("INPUT_DATA", e)
          /\ LET r == ParseInput(e) IN
             IF r.error # None
             THEN /\ Raise(r.error)
                  /\ UNCHANGED locals
             ELSE /\ locals' = Set(Set(Set(locals, "input_data", r.input_data),
                                       "program", r.program), "project", r.project)
                  /\ pc' = IF script = "fhir_import" THEN "can_create" ELSE "method"
                  /\ UNCHANGED error
    /\ Step("input_data")
    /\ UNCHANGED <<script, output, stdout, prev>>

\* fhir_import_export._main: method = input_data.get("method", None) and the dispatch
Method ==
    /\ pc = "method"
    /\ script = "fhir_import_export"
    /\ LET input_data == locals.input_data IN
       IF "method" \notin DOMAIN input_data \/ input_data.method = <<>>
       THEN /\ Raise("AssertionError: input data must contain a method")
            /\ UNCHANGED locals
       ELSE /\ locals' = Set(locals, "method", input_data.method)
            /\ IF IsPut(input_data.method)
               THEN pc' = "can_create" /\ UNCHANGED error
               ELSE IF IsGet(input_data.method)
               THEN pc' = "can_read" /\ UNCHANGED error
               ELSE Raise("Exception: unknown method")
    /\ Step("method")
    /\ UNCHANGED <<script, world, output, stdout, prev>>

\* object_id = _get_object_id(input_data)
_get_object_id(input_data) ==
    IF "object_id" \in DOMAIN input_data THEN input_data.object_id ELSE None
\* mutant of MainBranch: the download starts whatever _can_create returned
MainBranch_unchecked(logs, can_create, input_data) ==
    LET l1 == Append(logs, "CAN CREATE: " \o BoolStr(can_create))
        object_id == _get_object_id(input_data)
    IN  IF Truthy(object_id)
        THEN [logs |-> l1, pc |-> "download", object_id |-> object_id]
        ELSE [logs |-> Append(l1, "OBJECT ID NOT FOUND"), pc |-> "print",
              object_id |-> object_id]

\* fhir_import._main after _can_create returned: the 'CAN CREATE' line, and the
\* branch on can_create and object_id (the log, the next position, object_id)
MainBranch(logs, can_create, input_data) ==
    LET l1 == Append(logs, "CAN CREATE: " \o BoolStr(can_create))
        object_id == _get_object_id(input_data)
    IN  IF can_create
        THEN IF Truthy(object_id)
             THEN [logs |-> l1, pc |-> "download", object_id |-> object_id]
             ELSE [logs |-> Append(l1, "OBJECT ID NOT FOUND"), pc |-> "print",
                   object_id |-> object_id]
        ELSE [logs |-> l1, pc |-> "print", object_id |-> None]
\* mutant of PutBranch: a missing object_id is not reported
PutBranch_silent(logs, can_create, input_data) ==
    LET l1 == Append(logs, "CAN CREATE: " \o BoolStr(can_create))
        object_id == _get_object_id(input_data)
    IN  IF can_create /\ Truthy(object_id)
        THEN [logs |-> l1, pc |-> "download", object_id |-> object_id]
        ELSE [logs |-> l1, pc |-> "print",
              object_id |-> IF can_create THEN object_id ELSE None]

\* fhir_import_export._put after _can_create returned: the same branch
PutBranch(logs, can_create, input_data) ==
    LET l1 == Append(logs, "CAN CREATE: " \o BoolStr(can_create))
        object_id == _get_object_id(input_data)
    IN  IF can_create
        THEN IF Truthy(object_id)
             THEN [logs |-> l1, pc |-> "download", object_id |-> object_id]
             ELSE [logs |-> Append(l1, "OBJECT ID NOT FOUND"), pc |-> "print",
                   object_id |-> object_id]
        ELSE [logs |-> l1, pc |-> "print", object_id |-> None]

\* can_create = _can_create(output, program, user), and the branch on it
CanCreate ==
    /\ pc = "can_create"
    /\ LET r == _can_create(output.logs, locals.program, locals.user)
           a == IF script = "fhir_import"
                THEN MainBranch(r.logs, r.ret, locals.input_data)
                ELSE PutBranch(r.logs, r.ret, locals.input_data)
       IN  /\ Log(a.logs)
           /\ locals' = Set(Set(Set(locals, "can_create", r.ret),
                                "file_path", "/root/studies/" \o locals.project \o "/"),
                            "object_id", a.object_id)
           /\ pc' = a.pc
    /\ Step("can_create")
    /\ UNCHANGED <<script, world, stdout, error, prev>>

\* _download_and_unzip: subprocess.run of gen3_util files cp
Download ==
    /\ pc = "download"
    /\ \E result \in Uncaptured :
          /\ Answer("download", result)
          /\ LET r == _download(output.logs, locals.object_id, locals.file_path, result)
             IN  /\ Log(r.logs)
                 /\ pc' = IF r.ret THEN "unzip" ELSE "print"
    /\ Step("download")
    /\ UNCHANGED <<script, locals, stdout, error, prev>>

\* _download_and_unzip: subprocess.run of unzip
Unzip ==
    /\ pc = "unzip"
    /\ \E result \in Uncaptured :
          /\ Answer("unzip", result)
          /\ LET r == _unzip(output.logs, locals.object_id, locals.file_path, result)
             IN  /\ Log(r.logs)
                 /\ pc' = IF r.ret THEN "glob" ELSE "print"
    /\ Step("unzip")
    /\ UNCHANGED <<script, locals, stdout, error, prev>>

\* for _ in pathlib.Path(file_path).glob('*'): output['files'].append(str(_))
Glob ==
    /\ pc = "glob"
    /\ \E g \in Globs :
          /\ Answer("glob", g)
          /\ output' = [output EXCEPT
                           !.files = @ \o FilesFound(locals.file_path, g.names)]
    /\ Step("glob")
    /\ pc' = "load_all"
    /\ UNCHANGED <<script, locals, stdout, error, prev>>

\* _load_all(project, f"{program}-{project}", output)
LoadAll ==
    /\ pc = "load_all"
    /\ \E result \in Captured :
          /\ Answer("load_all", result)
          /\ Log(_load_all(output.logs, locals.project,
                           locals.program \o "-" \o locals.project, result).logs)
    /\ Step("load_all")
    /\ pc' = "print"
    /\ UNCHANGED <<script, locals, stdout, error, prev>>

\* _get: can_read = _can_read(output, program, project, user); without the
\* permission _get returns None and _main stores it as output['object_id']
CanRead ==
    /\ pc = "can_read"
    /\ LET r == _can_read(output.logs, locals.program, locals.project, locals.user)
       IN  /\ locals' = Set(locals, "can_read", r.ret)
           /\ IF ~r.ret
              THEN /\ output' = Set([output EXCEPT !.logs =
                                        Append(r.logs, "No read permissions on "
                                               \o locals.program \o "-" \o locals.project)],
                                    "object_id", None)
                   /\ pc' = "print"
              ELSE /\ Log(r.logs)
                   /\ pc' = "fhir_get"
    /\ Step("can_read")
    /\ UNCHANGED <<script, world, stdout, error, prev>>

\* _get: logs = fhir_get(...); output['logs'].extend(logs)
FhirGet ==
    /\ pc = "fhir_get"
    /\ \E r \in FhirGetResults :
          /\ Answer("fhir_get", r)
          /\ Log(output.logs \o r.logs)
    /\ Step("fhir_get")
    /\ pc' = "cp"
    /\ UNCHANGED <<script, locals, stdout, error, prev>>

\* _get: cp_result = cp(...), its msg logged and its object_id returned;
\* _main: output['object_id'] = object_id
Cp ==
    /\ pc = "cp"
    /\ \E r \in CpResults :
          /\ Answer("cp", r)
          /\ output' = Set([output EXCEPT !.logs = Append(@, r.msg)],
                           "object_id", r.object_id)
    /\ Step("cp")
    /\ pc' = "print"
    /\ UNCHANGED <<script, locals, stdout, error, prev>>
\* mutant of PrintOut: the record is printed by _put and again by _main
PrintOut_twice ==
    /\ pc = "print"
    /\ stdout' = stdout \o << [prefix |-> "[out] ", json |-> output],
                              [prefix |-> "[out] ", json |-> output] >>
    /\ Step("print")
    /\ pc' = "done"
    /\ UNCHANGED <<script, world, locals, output, error, prev>>

\* print(f"[out] {json.dumps(output, separators=(',', ':'))}")
PrintOut ==
    /\ pc = "print"
    /\ stdout' = Append(stdout, [prefix |-> "[out] ", json |-> output])
    /\ Step("print")
    /\ pc' = "done"
    /\ UNCHANGED <<script, world, locals, output, error, prev>>

Next ==
    \/ Auth
    \/ User
    \/ InputData
    \/ Method
    \/ CanCreate
    \/ Download
    \/ Unzip
    \/ Glob
    \/ LoadAll
    \/ CanRead
    \/ FhirGet
    \/ Cp
    \/ PrintOut

Spec == Init /\ [][Next]_vars

----------------------------------------------------------------------------
(* The two scripts on the same inputs: fhir_import runs first, then        *)
(* fhir_import_export runs against the same user document, the same        *)
(* INPUT_DATA with a method 'put' added, and the same external answers.    *)

PutMethods == {m \in Methods : IsPut(m)}

InitPair ==
    /\ Init
    /\ script = "fhir_import"

Rerun ==
    /\ script = "fhir_import"
    /\ pc \in {"done", "aborted"}
    /\ prev = Undefined
    /\ prev' = [output |-> output, stdout |-> stdout, trace |-> trace, error |-> error]
    /\ \E m \in PutMethods :
          world' = [world EXCEPT !["INPUT_DATA"] =
                       IF @.set THEN [@ EXCEPT !.json = Set(@, "method", m)] ELSE @]
    /\ script' = "fhir_import_export"
    /\ pc' = "auth"
    /\ locals' = ("__name__" :> "__main__")
    /\ output' = Undefined
    /\ stdout' = <<>>
    /\ trace' = <<>>
    /\ error' = None

NextPair ==
    \/ Auth
    \/ User
    \/ InputData
    \/ Method
    \/ CanCreate
    \/ Download
    \/ Unzip
    \/ Glob
    \/ LoadAll
    \/ PrintOut
    \/ Rerun

SpecPair == InitPair /\ [][NextPair]_vars

----------------------------------------------------------------------------
(* Properties *)

Subprocesses == {"download", "unzip", "load_all"}

Invoked(step) == InSeq(step, trace)

\* the subprocess of step q has run and exited nonzero
Failed(q) == Invoked(q) /\ world[q].returncode # 0

Succeeded(q) == Invoked(q) /\ world[q].returncode = 0

Returned(name) == name \in DOMAIN locals

LastLog == output.logs[Len(output.logs)]

PrevLog == output.logs[Len(output.logs) - 1]

\* C1: a nonzero exit code appends its error line and stops the pipeline.  A
\* failed download leaves exactly 'ERROR DOWNLOADING ...' after the 'CAN CREATE'
\* line, and neither unzip nor load_all runs; a failed unzip leaves 'ERROR
\* UNZIPPING ...' right after the 'DOWNLOADED' line and load_all does not run; a
\* failed load_all leaves 'ERROR LOADING <study>'; no subprocess runs after one
\* that exited nonzero.
C1_ErrorStopsPipeline ==
    /\ Failed("download") =>
          /\ ~Invoked("unzip") /\ ~Invoked("load_all")
          /\ pc \in {"print", "done"}
          /\ LastLog = "ERROR DOWNLOADING " \o locals.object_id
                           \o " /tmp/" \o locals.object_id
          /\ PrevLog = "CAN CREATE: True"
    /\ Failed("unzip") =>
          /\ ~Invoked("load_all")
          /\ pc \in {"print", "done"}
          /\ LastLog = "ERROR UNZIPPING /tmp/" \o locals.object_id
          /\ PrevLog = "DOWNLOADED " \o locals.object_id \o " " \o locals.file_path
    /\ Failed("load_all") => InSeq("ERROR LOADING " \o locals.project, output.logs)
    /\ \A i, j \in 1..Len(trace) :
          (i < j /\ trace[i] \in Subprocesses /\ world[trace[i]].returncode # 0)
             => trace[j] \notin Subprocesses

C1_Witness == pc = "done" /\ Failed("unzip") /\ Succeeded("download")

\* C2: no download, unzip or load runs unless _can_create returned True; when it
\* returned False the run goes straight to the print, and the printed record has
\* 'CAN CREATE: False' in its log, no files, and no subprocess was invoked.
C2_NoSubprocessWithoutPermission ==
    /\ (\E q \in Subprocesses : Invoked(q)) =>
          Returned("can_create") /\ locals.can_create
    /\ (Returned("can_create") /\ ~locals.can_create) =>
          /\ pc \in {"print", "done"}
          /\ pc = "print" => ENABLED PrintOut
          /\ \A q \in Subprocesses : ~Invoked(q)
          /\ output.files = <<>>
          /\ InSeq("CAN CREATE: False", output.logs)
          /\ pc = "done" => stdout = <<[prefix |-> "[out] ", json |-> output]>>

C2_Witness ==
    /\ pc = "done"
    /\ Returned("can_create") /\ ~locals.can_create
    /\ Truthy(_get_object_id(locals.input_data))

\* C3 as claimed: every run, whatever the input data, ends having printed exactly
\* one '[out]' line, as its last action.
C3_Original ==
    pc \in {"done", "aborted"} =>
        /\ Len(stdout) = 1
        /\ trace[Len(trace)] = "print"

\* C3, amended: a run prints at most one '[out]' line.  A run that is not ended
\* by an exception prints exactly one, as its last action, and the line carries
\* the output record; the only exceptions are raised while INPUT_DATA is read and
\* validated (and the method, in fhir_import_export), before any permission check,
\* and such a run prints nothing.  Whatever the permission outcome and the exit
\* codes, a run that got past the validation goes on until it has printed.
C3_PrintsOnceUnlessAborted ==
    /\ Len(stdout) <= 1
    /\ pc = "done" =>
          /\ stdout = <<[prefix |-> "[out] ", json |-> output]>>
          /\ trace[Len(trace)] = "print"
          /\ error = None
    /\ pc # "done" => stdout = <<>>
    /\ pc = "aborted" =>
          /\ error # None
          /\ trace[Len(trace)] \in {"input_data", "method"}
    /\ pc \notin {"done", "aborted"} => ENABLED Next

C3_Witness == pc = "done" /\ Failed("load_all") /\ Len(stdout) = 1

\* C4: _can_create returns True exactly when the four resources are in
\* user['resources'] and the projects resource is a key of user['authz'] whose
\* list holds the sheepdog entry; every check leaves its line in the log, whatever
\* the earlier checks found; the user document is left as it was fetched.
C4_CanCreateIsConjunction ==
    Returned("can_create") =>
        LET user == locals.user
            program == "/programs/" \o locals.program
            projects == "/programs/" \o locals.program \o "/projects"
            required == { "/services/sheepdog/submission/program",
                          "/services/sheepdog/submission/project",
                          projects }
        IN  /\ locals.can_create =
                  ( /\ program \in user.resources
                    /\ required \subseteq user.resources
                    /\ projects \in DOMAIN user.authz
                    /\ Sheepdog \in user.authz[projects] )
            /\ program \notin user.resources =>
                  output.logs[1] = program \o " not found in user resources"
            /\ \A r \in required :
                  IF r \in user.resources
                  THEN InSeq("HAS RESOURCE " \o r, output.logs)
                  ELSE InSeq(r \o " not found in user resources", output.logs)
            /\ \/ InSeq(projects \o " not found in user authz", output.logs)
               \/ InSeq("sheepdog not found in user authz for " \o projects, output.logs)
               \/ InSeq("HAS SERVICE sheepdog on resource " \o projects, output.logs)
            /\ user = world["user"]
            /\ output.user = world["user"]

\* every check fails but one, and the one that holds is still evaluated and logged
C4_Witness ==
    /\ Returned("can_create") /\ ~locals.can_create
    /\ output.logs[1] = "/programs/p not found in user resources"
    /\ InSeq("HAS RESOURCE /services/sheepdog/submission/project", output.logs)
    /\ InSeq("HAS SERVICE sheepdog on resource /programs/p/projects", output.logs)

\* the run is on the export path of fhir_import_export
ExportPath == script = "fhir_import_export" /\ Returned("method") /\ IsGet(locals.method)

\* C5: fhir_get and cp run only if _can_read returned True, which it does exactly
\* when the program and the project resource are in user['resources'] and the
\* project resource has the read-storage entry in user['authz']; without the
\* permission the log ends with 'No read permissions on <program>-<project>',
\* nothing is exported or uploaded and the record carries object_id = None; the
\* printed record has the key object_id on the export path and only there.
C5_ExportNeedsRead ==
    /\ (Invoked("fhir_get") \/ Invoked("cp")) =>
          Returned("can_read") /\ locals.can_read
    /\ Returned("can_read") =>
          LET user == locals.user
              program == "/programs/" \o locals.program
              project == program \o "/projects/" \o locals.project
          IN  locals.can_read =
                  ( /\ program \in user.resources
                    /\ project \in user.resources
                    /\ project \in DOMAIN user.authz
                    /\ ReadStorage \in user.authz[project] )
    /\ (Returned("can_read") /\ ~locals.can_read) =>
          /\ LastLog = "No read permissions on " \o locals.program \o "-" \o locals.project
          /\ ~Invoked("fhir_get") /\ ~Invoked("cp")
          /\ output.object_id = None
          /\ pc \in {"print", "done"}
    /\ pc = "done" =>
          /\ ("object_id" \in DOMAIN stdout[1].json) <=> ExportPath
          /\ Invoked("cp") => stdout[1].json.object_id = world["cp"].object_id

C5_Witness ==
    /\ pc = "done"
    /\ Returned("can_read") /\ ~locals.can_read
    /\ stdout[1].json.object_id = None
    /\ "/programs/p" \in locals.user.resources
    /\ "/programs/p/projects/p" \in locals.user.resources

\* the run is an import: fhir_import, or fhir_import_export with method 'put'
ImportPath ==
    \/ script = "fhir_import"
    \/ script = "fhir_import_export" /\ Returned("method") /\ IsPut(locals.method)

\* the place of each step in the order of the import
Rank(step) ==
    CASE step = "auth"       -> 1
      [] step = "user"       -> 2
      [] step = "input_data" -> 3
      [] step = "method"     -> 4
      [] step = "can_create" -> 5
      [] step = "download"   -> 6
      [] step = "unzip"      -> 7
      [] step = "glob"       -> 8
      [] step = "load_all"   -> 9
      [] step = "print"      -> 10
      [] OTHER               -> 0

\* C6: in an import run the steps happen in one fixed order, each at most once:
\* credentials, user info, INPUT_DATA, authorization, download, unzip, load,
\* print; and the load runs only after download and unzip both exited with 0.
C6_LinearOrder ==
    ImportPath =>
        /\ \A i, j \in 1..Len(trace) : i < j => Rank(trace[i]) < Rank(trace[j])
        /\ \A i \in 1..Len(trace) : Rank(trace[i]) > 0
        /\ Invoked("unzip") => Succeeded("download")
        /\ Invoked("load_all") => Succeeded("download") /\ Succeeded("unzip")
        /\ pc = "done" => /\ Invoked("auth") /\ Invoked("user") /\ Invoked("input_data")
                          /\ Invoked("can_create") /\ Invoked("print")

C6_Witness ==
    /\ ImportPath
    /\ pc = "done"
    /\ Invoked("load_all")
    /\ Len(trace) >= 9

\* C7: the log only grows: every step leaves the earlier log as a prefix of the
\* new one; the permission checks, the download, the unzip and the load change
\* nothing of the record but the log; the user document of the record is the one
\* fetched, unchanged.
C7_LogAppendOnly ==
    [][ output # Undefined =>
          /\ output' # Undefined
          /\ IsPrefix(output.logs, output'.logs)
          /\ output'.user = output.user
          /\ output'.user = world["user"]
          /\ pc \in {"can_create", "can_read", "download", "unzip", "load_all"} =>
                output'.files = output.files ]_vars

C7_Witness ==
    /\ pc = "done"
    /\ Succeeded("load_all")
    /\ Len(output.logs) >= 10
    /\ output.user = world["user"]

\* C8 as claimed: a project_id with at least one '-' yields one program and one
\* project and the run goes on to the permission check; without project_id, or
\* without '-', the run is ended by an assertion before any permission check.
C8_Claim ==
    (Invoked("input_data") /\ world["INPUT_DATA"].set) =>
        LET input_data == world["INPUT_DATA"].json
        IN  IF "project_id" \in DOMAIN input_data /\ InSeq("-", input_data.project_id)
            THEN /\ error = None
                 /\ Returned("program") /\ Returned("project")
            ELSE /\ pc = "aborted"
                 /\ ~Invoked("can_create") /\ ~Invoked("can_read")

\* the method as the caller wrote it, whatever its letter case
SaysPut(m) ==
    /\ Len(m) = 3
    /\ m[1] \in {"p", "P"} /\ m[2] \in {"u", "U"} /\ m[3] \in {"t", "T"}

SaysGet(m) ==
    /\ Len(m) = 3
    /\ m[1] \in {"g", "G"} /\ m[2] \in {"e", "E"} /\ m[3] \in {"t", "T"}

PermissionOrTool == {"can_create", "can_read", "download", "unzip", "glob", "load_all",
                     "fhir_get", "cp"}

\* C9: in fhir_import_export the method selects the path whatever its letter
\* case: 'put' runs the import path only, 'get' the export path only; a missing,
\* empty or other method ends the run with an error, before any permission
\* check, subprocess, export or upload, and nothing is printed.  No run takes
\* both paths.
C9_MethodSelectsPath ==
    /\ (script = "fhir_import_export" /\ Invoked("method")) =>
          LET input_data == locals.input_data IN
          IF "method" \in DOMAIN input_data /\ SaysPut(input_data.method)
          THEN /\ pc # "aborted"
               /\ pc = "can_create" \/ Invoked("can_create")
               /\ ~Invoked("can_read") /\ ~Invoked("fhir_get") /\ ~Invoked("cp")
          ELSE IF "method" \in DOMAIN input_data /\ SaysGet(input_data.method)
          THEN /\ pc # "aborted"
               /\ pc = "can_read" \/ Invoked("can_read")
               /\ ~Invoked("can_create") /\ \A q \in Subprocesses : ~Invoked(q)
          ELSE /\ pc = "aborted"
               /\ error # None
               /\ stdout = <<>>
               /\ \A q \in PermissionOrTool : ~Invoked(q)
    /\ ~(Invoked("can_create") /\ Invoked("can_read"))
    /\ (\E q \in {"fhir_get", "cp"} : Invoked(q)) =>
          \A q \in Subprocesses : ~Invoked(q)

C9_Witness ==
    /\ script = "fhir_import_export"
    /\ pc = "done"
    /\ locals.input_data.method = <<"P", "U", "T">>
    /\ Invoked("load_all")

\* the subprocesses a run invoked, in order
RECURSIVE Calls(_)
Calls(t) ==
    IF t = <<>> THEN <<>>
    ELSE IF Head(t) \in Subprocesses THEN <<Head(t)>> \o Calls(Tail(t))
    ELSE Calls(Tail(t))

\* C10: on the same user document, the same INPUT_DATA (method 'put' added) and
\* the same exit codes, fhir_import and fhir_import_export invoke the same
\* subprocesses in the same order and print records with the same user, files
\* and logs (or both end with the same exception, printing nothing); a permitted
\* run without object_id logs 'OBJECT ID NOT FOUND' and invokes nothing, in both.
C10_ImportEquivalent ==
    (prev # Undefined /\ pc \in {"done", "aborted"}) =>
        /\ Calls(trace) = Calls(prev.trace)
        /\ Len(stdout) = Len(prev.stdout)
        /\ error = prev.error
        /\ \A i \in 1..Len(stdout) :
              /\ stdout[i].json.user = prev.stdout[i].json.user
              /\ stdout[i].json.files = prev.stdout[i].json.files
              /\ stdout[i].json.logs = prev.stdout[i].json.logs
        /\ ( /\ pc = "done"
             /\ locals.can_create
             /\ ~Truthy(_get_object_id(locals.input_data)) ) =>
              /\ LastLog = "OBJECT ID NOT FOUND"
              /\ prev.output.logs[Len(prev.output.logs)] = "OBJECT ID NOT FOUND"
              /\ Calls(trace) = <<>>

C10_Witness ==
    /\ prev # Undefined
    /\ pc = "done"
    /\ Len(prev.stdout) = 1
    /\ Calls(prev.trace) = <<"download", "unzip", "load_all">>
    /\ locals.method = <<"P", "U", "T">>

====
